---- MODULE Spec2Model ----
(***************************************************************************)
(* A model of svdmap's import_svd (src/__init__.py): the pass that walks   *)
(* the peripherals, registers and fields of a parsed SVD document and      *)
(* builds register and peripheral structure types, comments and the        *)
(* peripheral address ranges in a Binary Ninja view.                       *)
(*                                                                         *)
(* The document is fixed when the pass starts (line 15) and is a variable  *)
(* that never changes; the view (types, comments, segments, ...) and the   *)
(* two structure builders are the state the pass mutates.  One action      *)
(* models one loop body or one straight-line block of import_svd.          *)
(*                                                                         *)
(* Library behaviour the code relies on (binaryninja.StructureBuilder):    *)
(*   - insert(..., overwrite_existing=True), the default, removes the      *)
(*     members the new one overlaps and adds the new one;                  *)
(*   - insert(..., overwrite_existing=False) adds the member when nothing  *)
(*     overlaps it; when something does, the model allows both outcomes    *)
(*     (the member is refused, or it is added beside the others);          *)
(*   - member_at_offset(o) is the first member whose offset is exactly o;  *)
(*   - a builder's width grows to hold every inserted member.              *)
(***************************************************************************)
EXTENDS Integers, Sequences, FiniteSets, TLC

VARIABLES doc, show_comments, structure_bitfields, pc, p, r, f,
          per_struct, reg_struct, per_size,
          types, comments, segments, sections, regions, symbols, data_vars,
          warnings

\* doc                  the parsed peripherals (lines 14-20), never changed
\* show_comments,
\* structure_bitfields  the two settings (lines 22-23)
\* pc                   where the pass is: "peripheral", "register", "field",
\*                      "widen", "emit", "done", or "error" (an exception)
\* p, r, f              the peripheral, register and field last taken (1-based)
\* per_struct, reg_struct, per_size   the locals of lines 29, 39 and 88
\* types, comments, segments, sections, regions, symbols, data_vars
\*                      what the view holds (lines 62, 79, 82, 100-111)
\* warnings             what log_warn was given (line 96)
vars == <<doc, show_comments, structure_bitfields, pc, p, r, f,
          per_struct, reg_struct, per_size,
          types, comments, segments, sections, regions, symbols, data_vars,
          warnings>>

BYTE_SIZE == 8

\* Bounds of the explored documents.
MaxFields == 2
MaxBlocks == 2
MaxRegisters == 2

Max(a, b) == IF a < b THEN b ELSE a

----------------------------------------------------------------------------
\* Arithmetic of lines 37, 46-47, 50, 53, 59 on non-negative integers.

\* int(reg_size / BYTE_SIZE): true division, then truncation.
RegSizeBytes(reg_size) == reg_size \div BYTE_SIZE

\* (x / BYTE_SIZE).is_integer()
IsInteger(bits) == bits % BYTE_SIZE = 0

\* math.floor(x / BYTE_SIZE) and int(x / BYTE_SIZE)
FloorBytes(bits) == bits \div BYTE_SIZE

\* math.ceil(x / BYTE_SIZE)
CeilBytes(bits) == (bits + BYTE_SIZE - 1) \div BYTE_SIZE

----------------------------------------------------------------------------
\* Types and structure builders.

IntType(w) == [kind |-> "int", width |-> w, members |-> <<>>]

Member(off, ty, name) == [offset |-> off, type |-> ty, name |-> name]

RECURSIVE MembersEnd(_)
\* The extent of a member list: the largest offset + width.
MembersEnd(ms) ==
    IF ms = <<>> THEN 0
    ELSE Max(Head(ms).offset + Head(ms).type.width, MembersEnd(Tail(ms)))

\* Type.union(members): the members as given, each at its own offset.
UnionType(ms) == [kind |-> "union", width |-> MembersEnd(ms), members |-> ms]

\* StructureBuilder.create(width=w) and StructureBuilder.create()
CreateStruct(w) == [kind |-> "struct", width |-> w, members |-> <<>>]

Overlaps(m, off, w) ==
    \/ m.offset = off
    \/ (m.offset < off + w /\ off < m.offset + m.type.width)

\* The member is put in offset order, after the members at or before it.
AddMember(s, m) ==
    [s EXCEPT
       !.members = SelectSeq(s.members, LAMBDA x : x.offset <= m.offset)
                   \o <<m>>
                   \o SelectSeq(s.members, LAMBDA x : x.offset > m.offset),
       !.width = Max(s.width, m.offset + m.type.width)]

RemoveOverlapping(s, off, w) ==
    [s EXCEPT !.members = SelectSeq(s.members, LAMBDA x : ~Overlaps(x, off, w))]

\* StructureBuilder.insert(off, ty, name, overwrite_existing): the set of
\* builders the call can leave.
Insert(s, off, ty, name, overwrite_existing) ==
    IF overwrite_existing
    THEN {AddMember(RemoveOverlapping(s, off, ty.width), Member(off, ty, name))}
    ELSE IF \A i \in 1..Len(s.members) : ~Overlaps(s.members[i], off, ty.width)
         THEN {AddMember(s, Member(off, ty, name))}
         ELSE {s, AddMember(s, Member(off, ty, name))}

\* StructureBuilder.member_at_offset(off): the members at exactly off, in order
\* (the call returns the first, or None when there is none).
MembersAt(s, off) == SelectSeq(s.members, LAMBDA x : x.offset = off)

----------------------------------------------------------------------------
\* The parsed document (result['device']['peripherals']['peripheral'], line 20):
\* a sequence of peripherals, each with name, description, baseAddress,
\* addressBlock (a sequence of offset/size) and registers; each register with
\* name, description (its lines), addressOffset, size (bits) and fields; each
\* field with name, lsb and msb.

RegNames == <<"R1", "R2", "R3">>
FieldNames == <<"F1", "F2", "F3", "F4">>

Field(name, lsb, msb) == [name |-> name, lsb |-> lsb, msb |-> msb]

Register(name, desc, off, size, fields) ==
    [name |-> name, description |-> desc, addressOffset |-> off,
     size |-> size, fields |-> fields]

Peripheral(name, base, blocks, regs) ==
    [name |-> name, description |-> "desc", baseAddress |-> base,
     addressBlock |-> blocks, registers |-> regs]

SeqsUpTo(S, n) == UNION {[1..k -> S] : k \in 0..n}

\* Bit ranges lsb..msb of the explored fields.
FieldRanges == {<<0, 0>>, <<0, 5>>, <<0, 7>>, <<0, 8>>, <<0, 15>>,
                <<3, 5>>, <<3, 7>>, <<3, 8>>, <<3, 10>>,
                <<8, 8>>, <<8, 10>>, <<8, 15>>, <<8, 16>>,
                <<10, 10>>, <<10, 15>>}

NamedFields(rs) ==
    [i \in 1..Len(rs) |-> Field(FieldNames[i], rs[i][1], rs[i][2])]

\* One 32-bit register, its fields varied.
FieldDocs ==
    {<<Peripheral("P1", 256, <<[offset |-> 0, size |-> 256]>>,
                  <<Register("R1", <<"line1">>, 4, 32, NamedFields(rs))>>)>> :
        rs \in SeqsUpTo(FieldRanges, MaxFields)}

\* One peripheral, its registers' widths and descriptions varied.
\* The i-th register lies at offset 4 * (i - 1).
RegisterShapes == {8, 12, 32} \X {<<>>, <<"line1">>, <<"line1", "line2">>}

NamedRegisters(shapes, fields) ==
    [i \in 1..Len(shapes) |->
        Register(RegNames[i], shapes[i][2], 4 * (i - 1), shapes[i][1], fields)]

RegisterDocs ==
    {<<Peripheral("P1", 256, <<[offset |-> 0, size |-> 256]>>,
                  NamedRegisters(shapes, <<>>))>> :
        shapes \in SeqsUpTo(RegisterShapes, MaxRegisters)}

\* One peripheral, its address blocks and register offsets varied.
Blocks == [offset : {0, 512}, size : {16, 256}]

PlacedRegisters(offs) ==
    [i \in 1..Len(offs) |->
        Register(RegNames[i], <<"line1">>, offs[i], 32, <<Field("F1", 0, 8)>>)]

RangeDocs ==
    {<<Peripheral("P1", base, blocks, PlacedRegisters(offs))>> :
        base \in {0, 256},
        blocks \in SeqsUpTo(Blocks, MaxBlocks),
        offs \in SeqsUpTo({0, 4, 764}, MaxRegisters)}

\* Two peripherals.
PairShapes ==
    {0, 256, 1024}
    \X {<<[offset |-> 0, size |-> 256]>>,
        <<[offset |-> 0, size |-> 256], [offset |-> 512, size |-> 16]>>}
    \X {<<>>, <<764>>}

PairDocs ==
    {<<Peripheral("P1", a[1], a[2], PlacedRegisters(a[3])),
       Peripheral("P2", b[1], b[2], PlacedRegisters(b[3]))>> :
        a \in PairShapes, b \in PairShapes}

Docs == FieldDocs \cup RegisterDocs \cup RangeDocs \cup PairDocs

----------------------------------------------------------------------------
\* The pass.

peripheral == doc[p]
register == doc[p].registers[r]
reg_addr == peripheral.baseAddress + register.addressOffset

\* f'{field_name} {field_msb}:{field_lsb}', reg_desc.splitlines()[0], per_desc
FieldText(fld) == [of |-> "field", text |-> fld.name, msb |-> fld.msb, lsb |-> fld.lsb]
LineText(of, line) == [of |-> of, text |-> line, msb |-> 0, lsb |-> 0]

\* bv.set_comment_at(addr, text)
SetCommentAt(cs, addr, text) ==
    [a \in DOMAIN cs \cup {addr} |-> IF a = addr THEN text ELSE cs[a]]

\* bv.define_user_type(name, ty)
DefineUserType(ts, name, ty) ==
    [n \in DOMAIN ts \cup {name} |-> IF n = name THEN ty ELSE ts[n]]

Empty == [x \in {} |-> 0]

Init ==
    /\ doc \in Docs
    /\ show_comments \in BOOLEAN
    /\ structure_bitfields \in BOOLEAN
    /\ pc = "peripheral"
    /\ p = 0 /\ r = 0 /\ f = 0
    /\ per_struct = CreateStruct(0)
    /\ reg_struct = CreateStruct(0)
    /\ per_size = 0
    /\ types = Empty
    /\ comments = Empty
    /\ segments = <<>> /\ sections = <<>> /\ regions = <<>>
    /\ symbols = <<>> /\ data_vars = <<>>
    /\ warnings = <<>>

\* Lines 25-31: the next peripheral and its empty structure.
BeginPeripheral ==
    /\ pc = "peripheral"
    /\ p < Len(doc)
    /\ p' = p + 1
    /\ r' = 0
    /\ per_struct' = CreateStruct(0)
    /\ pc' = "register"
    /\ UNCHANGED <<doc, show_comments, structure_bitfields, f, reg_struct,
                   per_size, types, comments, segments, sections, regions,
                   symbols, data_vars, warnings>>

\* Lines 32-41: the next register and its structure of reg_size_b bytes.
BeginRegister ==
    /\ pc = "register"
    /\ r < Len(peripheral.registers)
    /\ r' = r + 1
    /\ f' = 0
    /\ reg_struct' = CreateStruct(RegSizeBytes(peripheral.registers[r + 1].size))
    /\ pc' = "field"
    /\ UNCHANGED <<doc, show_comments, structure_bitfields, p, per_struct,
                   per_size, types, comments, segments, sections, regions,
                   symbols, data_vars, warnings>>

\* InsertAligned as it would be with the first member at an offset kept.
InsertAlignedKeepFirst(s, fld) ==
    IF MembersAt(s, FloorBytes(fld.lsb)) # <<>>
    THEN {s}
    ELSE Insert(s, FloorBytes(fld.lsb),
                IntType((FloorBytes(fld.msb) + 1) - FloorBytes(fld.lsb)),
                fld.name, TRUE)

\* Lines 53-55: the named integer member of a byte-aligned field.
InsertAligned(s, fld) ==
    Insert(s, FloorBytes(fld.lsb),
           IntType((FloorBytes(fld.msb) + 1) - FloorBytes(fld.lsb)),
           fld.name, TRUE)

\* Lines 59, 64-65: the bitfield's member, at the floor of its first byte.
BitfieldMember(fld) ==
    Member(FloorBytes(fld.lsb),
           IntType((CeilBytes(fld.msb) + 1) - FloorBytes(fld.lsb)),
           fld.name)

\* Lines 67-74: create the union at the member's offset, or extend the one there.
InsertBitfield(s, fld) ==
    LET bitfield_member == BitfieldMember(fld)
        at == MembersAt(s, bitfield_member.offset)
    IN IF at = <<>>
       THEN Insert(s, bitfield_member.offset, UnionType(<<bitfield_member>>), "", FALSE)
       ELSE IF Head(at).type.kind = "union"
            THEN Insert(s, Head(at).offset,
                        UnionType(Append(Head(at).type.members, bitfield_member)),
                        "", TRUE)
            ELSE {s}

\* Lines 42-74: one field of the register.
ResolveField ==
    /\ pc = "field"
    /\ f < Len(register.fields)
    /\ f' = f + 1
    /\ LET fld == register.fields[f + 1]
       IN IF IsInteger(fld.lsb) /\ IsInteger(fld.msb)
          THEN /\ reg_struct' \in InsertAligned(reg_struct, fld)
               /\ comments' = comments
          ELSE IF structure_bitfields
               THEN /\ comments' =
                         IF show_comments
                         THEN SetCommentAt(comments, reg_addr + FloorBytes(fld.lsb),
                                           FieldText(fld))
                         ELSE comments
                    /\ reg_struct' \in InsertBitfield(reg_struct, fld)
               ELSE /\ reg_struct' = reg_struct
                    /\ comments' = comments
    /\ UNCHANGED <<doc, show_comments, structure_bitfields, pc, p, r, per_struct,
                   per_size, types, segments, sections, regions,
                   symbols, data_vars, warnings>>

\* f'{per_name}_{reg_name}' and per_name, the keys of the view's types.
RegTypeName(per, reg) == <<per.name, reg.name>>
PerTypeName(per) == <<per.name>>

\* Lines 76-85: the register's comment, its type, and its place in the
\* peripheral.  reg_desc.splitlines()[0] raises IndexError on a description
\* without lines, which ends the pass before the type is defined.
FinishRegister ==
    /\ pc = "field"
    /\ f = Len(register.fields)
    /\ IF show_comments /\ register.description = <<>>
       THEN /\ pc' = "error"
            /\ UNCHANGED <<comments, types, per_struct>>
       ELSE /\ comments' =
                 IF show_comments
                 THEN SetCommentAt(comments, reg_addr,
                                   LineText("register", register.description[1]))
                 ELSE comments
            /\ types' = DefineUserType(types, RegTypeName(peripheral, register),
                                       reg_struct)
            /\ per_struct' \in Insert(per_struct, register.addressOffset,
                                      types'[RegTypeName(peripheral, register)],
                                      register.name, FALSE)
            /\ pc' = "register"
    /\ UNCHANGED <<doc, show_comments, structure_bitfields, p, r, f, reg_struct,
                   per_size, segments, sections, regions, symbols, data_vars,
                   warnings>>

RECURSIVE AddrSpanSizes(_, _)
\* AddrSpan as it would be if each block added only its size.
AddrSpanSizes(blocks, acc) ==
    IF blocks = <<>> THEN acc
    ELSE AddrSpanSizes(Tail(blocks), acc + Head(blocks).size)

RECURSIVE AddrSpan(_, _)
\* Lines 88-93: per_size after the blocks, starting from per_size = acc.
AddrSpan(blocks, acc) ==
    IF blocks = <<>> THEN acc
    ELSE AddrSpan(Tail(blocks),
                  acc + ((Head(blocks).offset - acc) + Head(blocks).size))

PlanAddressRange ==
    /\ pc = "register"
    /\ r = Len(peripheral.registers)
    /\ per_size' = AddrSpan(peripheral.addressBlock, 0)
    /\ pc' = "widen"
    /\ UNCHANGED <<doc, show_comments, structure_bitfields, p, r, f, per_struct,
                   reg_struct, types, comments, segments, sections, regions,
                   symbols, data_vars, warnings>>

\* WidenedSize as it would be without the comparison of lines 95-97.
WidenedSizeKeepSpan(size, width) == size

\* Lines 95-97: the size after the comparison with the structure's width.
WidenedSize(size, width) == IF size < width THEN width ELSE size

WidenToStruct ==
    /\ pc = "widen"
    /\ per_size' = WidenedSize(per_size, per_struct.width)
    /\ warnings' = IF per_size < per_struct.width
                   THEN Append(warnings, [name |-> peripheral.name,
                                          base |-> peripheral.baseAddress])
                   ELSE warnings
    /\ pc' = "emit"
    /\ UNCHANGED <<doc, show_comments, structure_bitfields, p, r, f, per_struct,
                   reg_struct, types, comments, segments, sections, regions,
                   symbols, data_vars>>

\* Lines 99-111: the peripheral's segment, section, memory region, comment,
\* type, symbol and data variable.
EmitPeripheral ==
    /\ pc = "emit"
    /\ segments' = Append(segments, [start |-> peripheral.baseAddress,
                                     length |-> per_size])
    /\ sections' = Append(sections, [name |-> peripheral.name,
                                     start |-> peripheral.baseAddress,
                                     length |-> per_size])
    /\ regions' = Append(regions, [name |-> peripheral.name,
                                   start |-> peripheral.baseAddress,
                                   length |-> per_size])
    /\ comments' = IF show_comments
                   THEN SetCommentAt(comments, peripheral.baseAddress,
                                     LineText("peripheral", peripheral.description))
                   ELSE comments
    /\ types' = DefineUserType(types, PerTypeName(peripheral), per_struct)
    /\ symbols' = Append(symbols, [address |-> peripheral.baseAddress,
                                   name |-> peripheral.name])
    /\ data_vars' = Append(data_vars, [address |-> peripheral.baseAddress,
                                       type |-> PerTypeName(peripheral),
                                       name |-> peripheral.name])
    /\ pc' = "peripheral"
    /\ UNCHANGED <<doc, show_comments, structure_bitfields, p, r, f, per_struct,
                   reg_struct, per_size, warnings>>

\* The loop of line 25 has run out of peripherals: import_svd returns.
Finish ==
    /\ pc = "peripheral"
    /\ p = Len(doc)
    /\ pc' = "done"
    /\ UNCHANGED <<doc, show_comments, structure_bitfields, p, r, f, per_struct,
                   reg_struct, per_size, types, comments, segments, sections,
                   regions, symbols, data_vars, warnings>>

Next ==
    \/ BeginPeripheral
    \/ BeginRegister
    \/ ResolveField
    \/ FinishRegister
    \/ PlanAddressRange
    \/ WidenToStruct
    \/ EmitPeripheral
    \/ Finish

Spec == Init /\ [][Next]_vars

----------------------------------------------------------------------------
\* Vocabulary of the properties.

\* Byte-aligned as the specification has it: the field starts on a byte
\* boundary and ends on the last bit of a byte.
SpecAligned(fld) == fld.lsb % 8 = 0 /\ (fld.msb + 1) % 8 = 0

\* The fields the code sends down its byte-aligned branch (line 50).
CodeAligned(fld) == IsInteger(fld.lsb) /\ IsInteger(fld.msb)

SameByteRange(a, b) ==
    /\ FloorBytes(a.lsb) = FloorBytes(b.lsb)
    /\ CeilBytes(a.msb) = CeilBytes(b.msb)

\* While pc = "field", fields 1..f of the current register have been resolved.
Resolved(k) == register.fields[k]
AllResolved == pc = "field" /\ f = Len(register.fields)

HasMember(s, m) == \E i \in 1..Len(s.members) : s.members[i] = m

HasUnionMember(s, off, name, w) ==
    \E i \in 1..Len(s.members) :
        /\ s.members[i].offset = off
        /\ s.members[i].type.kind = "union"
        /\ \E j \in 1..Len(s.members[i].type.members) :
              /\ s.members[i].type.members[j].name = name
              /\ s.members[i].type.members[j].type = IntType(w)

RangesDisjoint(a, alen, b, blen) ==
    alen = 0 \/ blen = 0 \/ a + alen <= b \/ b + blen <= a

BlocksDisjoint(x, y) ==
    \A i \in 1..Len(x.addressBlock), j \in 1..Len(y.addressBlock) :
        RangesDisjoint(x.baseAddress + x.addressBlock[i].offset,
                       x.addressBlock[i].size,
                       y.baseAddress + y.addressBlock[j].offset,
                       y.addressBlock[j].size)

BlockEnds(blocks) == {blocks[i].offset + blocks[i].size : i \in 1..Len(blocks)}

LargestEnd(blocks) ==
    IF blocks = <<>> THEN 0
    ELSE CHOOSE m \in BlockEnds(blocks) : \A e \in BlockEnds(blocks) : e <= m

NonDecreasingOffsets(blocks) ==
    \A i \in 1..(Len(blocks) - 1) : blocks[i].offset <= blocks[i + 1].offset

WellFormed ==
    \A i \in 1..Len(doc) : \A j \in 1..Len(doc[i].registers) :
        doc[i].registers[j].size % 8 = 0

Warned(per) ==
    \E i \in 1..Len(warnings) : warnings[i].name = per.name

----------------------------------------------------------------------------
\* C1: a field with lsb % 8 = 0 and (msb + 1) % 8 = 0, with no earlier field at
\* its byte offset, is placed, whatever the bitfield-structuring flag, as a
\* plain integer member named after it at offset lsb/8, (msb - lsb + 1)/8
\* bytes wide; a 32-bit register with the single field 0..7 ends with exactly
\* one 1-byte member at offset 0.
C1_AlignedFieldPlaced ==
    (pc = "field" /\ f >= 1) =>
        /\ (/\ SpecAligned(Resolved(f))
            /\ \A k \in 1..(f - 1) :
                  FloorBytes(Resolved(k).lsb) # FloorBytes(Resolved(f).lsb))
           => HasMember(reg_struct,
                        Member(Resolved(f).lsb \div 8,
                               IntType((Resolved(f).msb - Resolved(f).lsb + 1) \div 8),
                               Resolved(f).name))
        /\ (/\ register.size = 32
            /\ Len(register.fields) = 1
            /\ Resolved(1).lsb = 0 /\ Resolved(1).msb = 7)
           => reg_struct.members = <<Member(0, IntType(1), Resolved(1).name)>>

\* C2: with structureBitfields false, resolving a field that is not
\* byte-aligned (not both lsb % 8 = 0 and (msb + 1) % 8 = 0) leaves the
\* register layout and the annotations as they were.
C2_MisalignedDropped ==
    [][(/\ pc = "field"
        /\ f < Len(register.fields)
        /\ ~structure_bitfields
        /\ ~SpecAligned(register.fields[f + 1]))
       => (reg_struct' = reg_struct /\ comments' = comments)]_vars

\* C3: with structureBitfields true, two misaligned fields of a register with
\* the same floor(lsb/8) and ceil(msb/8) are, once all fields are resolved,
\* members of one union at offset floor(lsb/8), the earlier field first.
C3_SharedRangeMerged ==
    (AllResolved /\ structure_bitfields) =>
        \A i \in 1..f, j \in 1..f :
            (/\ i < j
             /\ ~SpecAligned(Resolved(i)) /\ ~SpecAligned(Resolved(j))
             /\ SameByteRange(Resolved(i), Resolved(j)))
            => LET at == MembersAt(reg_struct, FloorBytes(Resolved(i).lsb))
               IN /\ Len(at) = 1
                  /\ at[1].type.kind = "union"
                  /\ \E a \in 1..Len(at[1].type.members),
                        b \in 1..Len(at[1].type.members) :
                        /\ a < b
                        /\ at[1].type.members[a].name = Resolved(i).name
                        /\ at[1].type.members[b].name = Resolved(j).name

\* C4: the size of every peripheral's segment, section and memory region is
\* the larger of the span of its address blocks and the width of its
\* structure, so never less than that width; the warning is logged exactly
\* when the width exceeds the span, and the pass goes on to emit the
\* peripheral it warned about.
C4_ReservedSizeIsMax ==
    /\ \A i \in 1..Len(segments) :
          LET span == AddrSpan(doc[i].addressBlock, 0)
              width == types[PerTypeName(doc[i])].width
              size == segments[i].length
          IN /\ size >= span /\ size >= width
             /\ size = span \/ size = width
             /\ sections[i].length = size /\ regions[i].length = size
             /\ segments[i].start = doc[i].baseAddress
             /\ Warned(doc[i]) <=> span < width
    /\ pc = "emit" => per_size >= per_struct.width
    /\ \A w \in 1..Len(warnings) :
          \/ pc = "emit" /\ peripheral.name = warnings[w].name
          \/ \E i \in 1..Len(segments) : doc[i].name = warnings[w].name

C4_Widened ==
    /\ pc = "done"
    /\ \E i \in 1..Len(segments) :
          /\ AddrSpan(doc[i].addressBlock, 0) = 528
          /\ types[PerTypeName(doc[i])].width = 768
          /\ segments[i].length = 768
          /\ Warned(doc[i])

\* C5: when the declared address blocks of two peripherals are disjoint in
\* absolute addresses, so are the two peripherals' reserved ranges.
C5_ReservationsDisjoint ==
    \A i \in 1..Len(segments), j \in 1..Len(segments) :
        (i < j /\ BlocksDisjoint(doc[i], doc[j]))
        => RangesDisjoint(segments[i].start, segments[i].length,
                          segments[j].start, segments[j].length)

\* C6: a register whose bit-width is not a multiple of 8 is rejected: the
\* pass does not complete and no type is defined for that register.
C6_InvalidWidthRejected ==
    \A i \in 1..Len(doc) : \A j \in 1..Len(doc[i].registers) :
        doc[i].registers[j].size % 8 # 0
        => /\ RegTypeName(doc[i], doc[i].registers[j]) \notin DOMAIN types
           /\ pc # "done"

C8_BitfieldPlacement ==
    (pc = "field" /\ f >= 1 /\ structure_bitfields) =>
        /\ (f = 1 /\ ~SpecAligned(Resolved(1)))
           => HasUnionMember(reg_struct, FloorBytes(Resolved(1).lsb),
                             Resolved(1).name,
                             CeilBytes(Resolved(1).msb) - FloorBytes(Resolved(1).lsb))
        /\ (/\ f = 2
            /\ Resolved(1).lsb = 3 /\ Resolved(1).msb = 5
            /\ Resolved(2).lsb = 10 /\ Resolved(2).msb = 10)
           => /\ HasUnionMember(reg_struct, 0, Resolved(1).name, 1)
              /\ HasUnionMember(reg_struct, 1, Resolved(2).name, 1)

NonDecreasingEnds(blocks) ==
    \A i \in 1..(Len(blocks) - 1) :
        blocks[i].offset + blocks[i].size <= blocks[i + 1].offset + blocks[i + 1].size

\* C9 (as stated): for address blocks in non-decreasing offset order, the
\* accumulated span is at least every block's offset + size and equals the
\* largest of them.
C9_SpanIsLargestEnd ==
    (pc = "widen" /\ NonDecreasingOffsets(peripheral.addressBlock)) =>
        /\ per_size = LargestEnd(peripheral.addressBlock)
        /\ \A e \in BlockEnds(peripheral.addressBlock) : per_size >= e

\* C9 (amended): for address blocks in non-decreasing offset order whose ends
\* (offset + size) do not decrease either, as with blocks that do not overlap,
\* the accumulated span is at least every block's offset + size and equals
\* the largest of them; blocks (0, 0x100) and (0x200, 0x10) give 0x210.
C9_SpanOfOrderedBlocks ==
    (/\ pc = "widen"
     /\ NonDecreasingOffsets(peripheral.addressBlock)
     /\ NonDecreasingEnds(peripheral.addressBlock)) =>
        /\ per_size = LargestEnd(peripheral.addressBlock)
        /\ \A e \in BlockEnds(peripheral.addressBlock) : per_size >= e
        /\ peripheral.addressBlock = <<[offset |-> 0, size |-> 256],
                                       [offset |-> 512, size |-> 16]>>
           => per_size = 528

C9_GapSpanned ==
    /\ pc = "widen"
    /\ peripheral.addressBlock = <<[offset |-> 0, size |-> 256],
                                   [offset |-> 512, size |-> 16]>>
    /\ per_size = 528

\* C10: on a well-formed document (every register width a multiple of 8) the
\* pass is not aborted, whatever the flags and also when a register's
\* description has no lines; when it is done, every register and every
\* peripheral has its type and every peripheral its reservation and variable.
C10_PassCompletes ==
    WellFormed =>
        /\ pc # "error"
        /\ pc = "done" =>
              /\ Len(segments) = Len(doc) /\ Len(data_vars) = Len(doc)
              /\ \A i \in 1..Len(doc) :
                    /\ PerTypeName(doc[i]) \in DOMAIN types
                    /\ \A j \in 1..Len(doc[i].registers) :
                          RegTypeName(doc[i], doc[i].registers[j]) \in DOMAIN types

====
